---- MODULE Spec2Model ----
(***************************************************************************)
(* A model of app.py of katalk-extractor: the transcript segmenter         *)
(* (split_messages), the date/time helpers, the filter stage, the block    *)
(* formatter and the cell-report extractor.                                *)
(*                                                                         *)
(* A Python str is a sequence of symbols.  A symbol is a TLA+ string: one  *)
(* character (" ", "[", ":" ...) or one lexical unit that the regular      *)
(* expressions of app.py treat as a whole (a run of dashes, a              *)
(* year-month-day expression, an AM/PM time, a word).  Korean text is      *)
(* transliterated: "2026y 1m 4d" stands for "2026년 1월 4일", "PM 7:15" for   *)
(* "오후 7:15", "Sunday" for "일요일".                                        *)
(***************************************************************************)
EXTENDS Integers, Sequences, FiniteSets, TLC

VARIABLES
    \* split_messages
    lines, i, current_date, current_sender, current_dt,
    current_header_lines, current_body_lines, messages, pc, result,
    seen, open_info, msg_info,
    \* the last call of a date/time helper: its name, arguments and outcome
    call,
    \* filter_messages
    in_messages, start_d, end_d, senders, keywords, f_k, results, f_pc,
    \* the output stage: the loop over filtered and the join
    filtered, include_header, o_k, output_blocks, output_text, o_pc,
    \* parse_cell_report
    r_msg, r_lines, r_k, mode, report, r_ret, r_pc

splitVars == <<lines, i, current_date, current_sender, current_dt,
               current_header_lines, current_body_lines, messages, pc, result,
               seen, open_info, msg_info>>

pureVars == <<call>>

filterVars == <<in_messages, start_d, end_d, senders, keywords, f_k, results,
                f_pc>>

outputVars == <<filtered, include_header, o_k, output_blocks, output_text,
                o_pc>>

reportVars == <<r_msg, r_lines, r_k, mode, report, r_ret, r_pc>>

vars == <<splitVars, pureVars, filterVars, outputVars, reportVars>>

\* what split_messages leaves alone
notSplit == <<pureVars, filterVars, outputVars, reportVars>>

\* what the date/time helpers leave alone
notPure == <<splitVars, filterVars, outputVars, reportVars>>

\* what filter_messages leaves alone
notFilter == <<splitVars, pureVars, outputVars, reportVars>>

\* what the output stage leaves alone
notOutput == <<splitVars, pureVars, filterVars, reportVars>>

\* what parse_cell_report leaves alone
notReport == <<splitVars, pureVars, filterVars, outputVars>>

(***************************************************************************)
(* Each specification below runs one component; the variables of the       *)
(* others stay at these values.                                            *)
(***************************************************************************)
IdleSplit ==
    /\ lines = <<>>
    /\ i = 1
    /\ current_date = <<>>
    /\ current_sender = <<>>
    /\ current_dt = <<>>
    /\ current_header_lines = <<>>
    /\ current_body_lines = <<>>
    /\ messages = <<>>
    /\ pc = "idle"
    /\ result = <<>>
    /\ seen = <<>>
    /\ open_info = <<>>
    /\ msg_info = <<>>

IdlePure == call = <<>>

IdleFilter ==
    /\ in_messages = <<>>
    /\ start_d = <<>>
    /\ end_d = <<>>
    /\ senders = <<>>
    /\ keywords = <<>>
    /\ f_k = 1
    /\ results = <<>>
    /\ f_pc = "idle"

IdleOutput ==
    /\ filtered = <<>>
    /\ include_header = TRUE
    /\ o_k = 1
    /\ output_blocks = <<>>
    /\ output_text = <<>>
    /\ o_pc = "idle"

IdleReport ==
    /\ r_msg = <<>>
    /\ r_lines = <<>>
    /\ r_k = 1
    /\ mode = "none"
    /\ report = <<>>
    /\ r_ret = <<>>
    /\ r_pc = "idle"

(***************************************************************************)
(* Optional values: None is the empty tuple, a value x is <<x>>.           *)
(***************************************************************************)
None == <<>>
Some(x) == <<x>>
Val(o) == o[1]

(***************************************************************************)
(* str operations                                                          *)
(***************************************************************************)
SP == " "
NL == "\n"

IsSpace(c) == c \in {SP, NL}

RECURSIVE LStrip(_)
LStrip(s) ==
    IF s = <<>> THEN s
    ELSE IF IsSpace(Head(s)) THEN LStrip(Tail(s)) ELSE s

RECURSIVE RStrip(_)
RStrip(s) ==
    IF s = <<>> THEN s
    ELSE IF IsSpace(s[Len(s)]) THEN RStrip(SubSeq(s, 1, Len(s) - 1)) ELSE s

\* str.strip()
Strip(s) == RStrip(LStrip(s))

\* sub in s
Contains(sub, s) ==
    \E k \in 0..(Len(s) - Len(sub)) : SubSeq(s, k + 1, k + Len(sub)) = sub

\* sep.join(parts)
RECURSIVE Join(_, _)
Join(sep, parts) ==
    IF parts = <<>> THEN <<>>
    ELSE IF Len(parts) = 1 THEN parts[1]
    ELSE parts[1] \o sep \o Join(sep, Tail(parts))

\* the first index >= p of s that holds no whitespace (Len(s) + 1 if none): \s*
RECURSIVE SkipSp(_, _)
SkipSp(s, p) ==
    IF p > Len(s) THEN Len(s) + 1
    ELSE IF IsSpace(s[p]) THEN SkipSp(s, p + 1) ELSE p

\* the first index >= p of s that holds symbol c (0 if none)
RECURSIVE Find(_, _, _)
Find(s, c, p) ==
    IF p > Len(s) THEN 0
    ELSE IF s[p] = c THEN p ELSE Find(s, c, p + 1)

(***************************************************************************)
(* datetime.date and datetime.datetime: <<y, m, d>> and <<y, m, d, h, mi>>. *)
(* The constructors raise ValueError on out-of-range components.           *)
(***************************************************************************)
IsLeap(y) == (y % 4 = 0 /\ y % 100 # 0) \/ y % 400 = 0

DaysInMonth(y, m) ==
    IF m = 2 THEN (IF IsLeap(y) THEN 29 ELSE 28)
    ELSE IF m \in {4, 6, 9, 11} THEN 30 ELSE 31

ValidDate(y, m, d) ==
    /\ y \in 1..9999
    /\ m \in 1..12
    /\ d \in 1..DaysInMonth(y, m)

ValidDateTime(y, m, d, h, mi) ==
    /\ ValidDate(y, m, d)
    /\ h \in 0..23
    /\ mi \in 0..59

\* date <= date, lexicographic on (year, month, day)
DateLE(a, b) ==
    \/ a[1] < b[1]
    \/ a[1] = b[1] /\ a[2] < b[2]
    \/ a[1] = b[1] /\ a[2] = b[2] /\ a[3] <= b[3]

\* datetime.date()
DateOf(dt) == <<dt[1], dt[2], dt[3]>>

(***************************************************************************)
(* Lexical units.  Each table pairs a symbol with what int() of the        *)
(* regular expression's groups yields on the text it stands for.           *)
(***************************************************************************)
\* -+ : a run of dashes
DASHES == "-----"

\* (\d{4})년\s*(\d{1,2})월\s*(\d{1,2})일 and its groups (y, m, d)
DateTable ==
    { <<"2026y 1m 4d",   <<2026, 1, 4>>>>,
      <<"2026y 1m 5d",   <<2026, 1, 5>>>>,
      <<"2026y 2m 1d",   <<2026, 2, 1>>>>,
      <<"2026y 01m 03d", <<2026, 1, 3>>>>,
      <<"2026y 1m 3d",   <<2026, 1, 3>>>>,
      <<"2026y 13m 1d",  <<2026, 13, 1>>>> }

DateTokens == { p[1] : p \in DateTable }
DateFields(tok) == (CHOOSE p \in DateTable : p[1] = tok)[2]

\* f"{y}년 {m}월 {d}일": the text written without leading zeros
CanonicalDates == DateTokens \ {"2026y 01m 03d"}
FmtDate(y, m, d) ==
    CHOOSE tok \in CanonicalDates : DateFields(tok) = <<y, m, d>>

\* (오전|오후)\s*(\d{1,2}):(\d{2}) and its groups (ampm, h, min)
TimeTable ==
    { <<"AM 12:30", <<"AM", 12, 30>>>>,
      <<"PM 12:05", <<"PM", 12, 5>>>>,
      <<"PM 7:15",  <<"PM", 7, 15>>>>,
      <<"PM 13:00", <<"PM", 13, 0>>>> }

TimeTokens == { p[1] : p \in TimeTable }
TimeFields(tok) == (CHOOSE p \in TimeTable : p[1] = tok)[2]

\* f"{ampm} {h}:{minute:02d}"
FmtTime(ampm, h, minute) ==
    CHOOSE tok \in TimeTokens : TimeFields(tok) = <<ampm, h, minute>>

\* [가-힣]+ : a run of Hangul syllables (a weekday name, a person's name)
HangulWords == {"Sunday", "Kim", "Lee", "Park"}
\* \([^)]+\) : a parenthesised suffix such as (목)
ParenTokens == {"(Mon)"}
\* other words
PlainWords == {"hello", "all", "yo", "hi", "see"}

\* len() of the text a symbol stands for, in characters
CharLen(c) ==
    IF c \in DateTokens THEN 12
    ELSE IF c \in TimeTokens THEN 7
    ELSE IF c = DASHES THEN 15
    ELSE IF c \in HangulWords \cup PlainWords \cup ParenTokens THEN 3
    ELSE 1

RECURSIVE StrLen(_)
StrLen(s) == IF s = <<>> THEN 0 ELSE CharLen(Head(s)) + StrLen(Tail(s))

\* " " in s: the symbol is a space, or the text it stands for holds one
HasBlank(s) ==
    \E k \in 1..Len(s) : s[k] = SP \/ s[k] \in DateTokens \cup TimeTokens

(***************************************************************************)
(* The regular expressions of app.py, on symbol sequences.  A match is     *)
(* Some(groups), no match is None.                                         *)
(***************************************************************************)
\* the positions at which RE_DATE_DIVIDER matches: -+\s*DATE
DividerAt(line) ==
    { p \in 1..Len(line) :
        /\ line[p] = DASHES
        /\ SkipSp(line, p + 1) <= Len(line)
        /\ line[SkipSp(line, p + 1)] \in DateTokens }

Min(S) == CHOOSE x \in S : \A y \in S : x <= y

\* RE_DATE_DIVIDER.search(line): the leftmost match anywhere in the line
RE_DATE_DIVIDER_search(line) ==
    IF DividerAt(line) = {} THEN None
    ELSE Some(DateFields(line[SkipSp(line, Min(DividerAt(line)) + 1)]))

\* RE_DATE_LINE.fullmatch(line): DATE, optionally a weekday or (..) suffix
RE_DATE_LINE_fullmatch(line) ==
    IF /\ Len(line) >= 1
       /\ line[1] \in DateTokens
       /\ \/ Len(line) = 1
          \/ /\ SkipSp(line, 2) = Len(line)
             /\ line[Len(line)] \in HangulWords \cup ParenTokens
    THEN Some(DateFields(line[1]))
    ELSE None

\* RE_TIME_ONLY.fullmatch(s)
RE_TIME_ONLY_fullmatch(s) ==
    IF Len(s) = 1 /\ s[1] \in TimeTokens THEN Some(TimeFields(s[1])) ELSE None

\* RE_ANDROID_INLINE.match(line):
\*   ^DATE\s*TIME,\s*(sender: [^:]+)\s*:\s*(body: .*)$
RE_ANDROID_INLINE_match(line) ==
    LET q == SkipSp(line, 2)
        c == Find(line, ":", q + 2)
    IN  IF /\ Len(line) >= 1
           /\ line[1] \in DateTokens
           /\ q + 1 <= Len(line)
           /\ line[q] \in TimeTokens
           /\ line[q + 1] = ","
           /\ c >= q + 3
        THEN Some([date   |-> DateFields(line[1]),
                   time   |-> TimeFields(line[q]),
                   sender |-> SubSeq(line, q + 2, c - 1),
                   body   |-> SubSeq(line, c + 1, Len(line))])
        ELSE None

\* RE_INLINE_MSG.match(line):
\*   ^\[(sender: [^\]]+)\]\s*\[TIME\]\s*(body: .*)$
RE_INLINE_MSG_match(line) ==
    LET rb == Find(line, "]", 2)
        q  == SkipSp(line, rb + 1)
    IN  IF /\ Len(line) >= 1
           /\ line[1] = "["
           /\ rb >= 3
           /\ q + 2 <= Len(line)
           /\ line[q] = "["
           /\ line[q + 1] \in TimeTokens
           /\ line[q + 2] = "]"
        THEN Some([time   |-> TimeFields(line[q + 1]),
                   sender |-> SubSeq(line, 2, rb - 1),
                   body   |-> SubSeq(line, q + 3, Len(line))])
        ELSE None

(***************************************************************************)
(* AM/PM to 24-hour conversion: the helper and the three conversions       *)
(* written inline in split_messages.  ampm is "AM" (오전), "PM" (오후) or     *)
(* "" (the optional group did not take part in the match).                 *)
(***************************************************************************)
ampm_to_24h(h, ampm) ==
    IF ampm = "" THEN h
    ELSE IF ampm = "AM" THEN (IF h = 12 THEN 0 ELSE h)
    ELSE IF ampm = "PM" THEN (IF h = 12 THEN 12 ELSE h + 12)
    ELSE h

\* dialect B header (RE_ANDROID_INLINE)
AndroidHour(ampm, h) ==
    IF ampm = "AM" /\ h = 12 THEN 0
    ELSE IF ampm = "PM" /\ h # 12 THEN h + 12 ELSE h

\* InlineHour, changed to add 12 to every PM hour, noon included
InlineHour_noonPlus12(ampm, h) ==
    IF ampm = "AM" THEN (IF h = 12 THEN 0 ELSE h) ELSE h + 12

\* dialect A header (RE_INLINE_MSG)
InlineHour(ampm, h) ==
    IF ampm = "AM" THEN (IF h = 12 THEN 0 ELSE h)
    ELSE (IF h = 12 THEN 12 ELSE h + 12)

\* name + time header (RE_TIME_ONLY)
NameTimeHour(ampm, h) ==
    IF ampm = "AM" THEN (IF h = 12 THEN 0 ELSE h)
    ELSE (IF h = 12 THEN 12 ELSE h + 12)

(***************************************************************************)
(* split_messages                                                          *)
(***************************************************************************)
KMessage(sender, sent_at, header_lines, body_lines) ==
    [sender |-> sender, sent_at |-> sent_at,
     header_lines |-> header_lines, body_lines |-> body_lines]

\* the condition under which flush() appends a KMessage
FlushEmits == current_dt # None /\ current_body_lines # <<>>

\* messages after flush()
Flushed ==
    IF FlushEmits
    THEN Append(messages,
                KMessage(IF current_sender = None \/ current_sender = Some(<<>>)
                         THEN <<"UNKNOWN">> ELSE Val(current_sender),
                         Val(current_dt),
                         current_header_lines,
                         current_body_lines))
    ELSE messages

\* the record of where each emitted message came from, after flush()
FlushedInfo ==
    IF FlushEmits THEN Append(msg_info, Val(open_info)) ELSE msg_info

looks_like_name(s) ==
    LET t == Strip(s)
    IN  /\ 1 <= StrLen(t)
        /\ StrLen(t) <= 20
        /\ ~HasBlank(t)
        /\ Head(t) # "["

\* the trimmed line the loop body works on
Line == Strip(lines[i])

Scanning == pc = "scan" /\ i <= Len(lines)

IsDivider == RE_DATE_DIVIDER_search(Line) # None
IsDateLine == ~IsDivider /\ RE_DATE_LINE_fullmatch(Line) # None
IsAndroid ==
    ~IsDivider /\ ~IsDateLine /\ RE_ANDROID_INLINE_match(Line) # None
IsInline ==
    /\ ~IsDivider /\ ~IsDateLine /\ ~IsAndroid
    /\ current_date # None
    /\ RE_INLINE_MSG_match(Line) # None
\* IsNameTime, changed to take a name + time pair as a header while a message
\* is open as well
IsNameTime_whileOpen ==
    /\ ~IsDivider /\ ~IsDateLine /\ ~IsAndroid /\ ~IsInline
    /\ current_date # None
    /\ looks_like_name(Line)
    /\ i + 1 <= Len(lines)
    /\ RE_TIME_ONLY_fullmatch(Strip(lines[i + 1])) # None

\* the condition of the name + time branch
IsNameTime ==
    /\ ~IsDivider /\ ~IsDateLine /\ ~IsAndroid /\ ~IsInline
    /\ current_date # None
    /\ current_dt = None
    /\ looks_like_name(Line)
    /\ i + 1 <= Len(lines)
    /\ RE_TIME_ONLY_fullmatch(Strip(lines[i + 1])) # None

\* Raise, changed so that the offending line is skipped and the scan goes on
Raise_skipLine(kind) ==
    /\ messages' = Flushed
    /\ msg_info' = FlushedInfo
    /\ current_sender' = None
    /\ current_dt' = None
    /\ current_header_lines' = <<>>
    /\ current_body_lines' = <<>>
    /\ open_info' = None
    /\ seen' = Append(seen, kind)
    /\ i' = i + 1
    /\ UNCHANGED <<lines, current_date, pc, result>>
    /\ UNCHANGED notSplit

\* flush() has run and the date/datetime constructor raised ValueError:
\* the exception leaves split_messages, which returns nothing
Raise(kind) ==
    /\ pc' = "error"
    /\ messages' = Flushed
    /\ msg_info' = FlushedInfo
    /\ current_sender' = None
    /\ current_dt' = None
    /\ current_header_lines' = <<>>
    /\ current_body_lines' = <<>>
    /\ open_info' = None
    /\ seen' = Append(seen, kind)
    /\ UNCHANGED <<lines, i, current_date, result>>
    /\ UNCHANGED notSplit

\* SetDate, changed so that the open message is not flushed at a date line
SetDate_noFlush(kind, ymd) ==
    /\ ValidDate(ymd[1], ymd[2], ymd[3])
    /\ current_date' = Some(ymd)
    /\ i' = i + 1
    /\ seen' = Append(seen, kind)
    /\ UNCHANGED <<lines, pc, result, messages, msg_info, current_sender,
                   current_dt, current_header_lines, current_body_lines,
                   open_info>>
    /\ UNCHANGED notSplit

\* a date line: flush(), then current_date = date(y, m, d)
SetDate(kind, ymd) ==
    IF ValidDate(ymd[1], ymd[2], ymd[3])
    THEN /\ messages' = Flushed
         /\ msg_info' = FlushedInfo
         /\ current_sender' = None
         /\ current_dt' = None
         /\ current_header_lines' = <<>>
         /\ current_body_lines' = <<>>
         /\ open_info' = None
         /\ current_date' = Some(ymd)
         /\ i' = i + 1
         /\ seen' = Append(seen, kind)
         /\ UNCHANGED <<lines, pc, result>>
         /\ UNCHANGED notSplit
    ELSE Raise(kind)

\* OpenMessage, changed to open the new message without flush(): the open
\* message is not emitted and its body lines stay
OpenMessage_noFlush(kind, sender, ymd, hour, minute, header_lines, body, step) ==
    IF ValidDateTime(ymd[1], ymd[2], ymd[3], hour, minute)
    THEN /\ UNCHANGED <<messages, msg_info>>
         /\ current_sender' = Some(sender)
         /\ current_dt' = Some(<<ymd[1], ymd[2], ymd[3], hour, minute>>)
         /\ current_header_lines' = header_lines
         /\ current_body_lines' =
                current_body_lines \o (IF body # <<>> THEN <<body>> ELSE <<>>)
         /\ open_info' = Some([kind |-> kind, hidx |-> i,
                               amb |-> current_date, bidx |-> <<>>])
         /\ i' = i + step
         /\ seen' = (IF step = 2 THEN seen \o <<kind, "time">>
                     ELSE Append(seen, kind))
         /\ UNCHANGED <<lines, current_date, pc, result>>
         /\ UNCHANGED notSplit
    ELSE Raise(kind)

\* OpenMessage, changed to take the header's date as the ambient date
OpenMessage_setsAmbient(kind, sender, ymd, hour, minute, header_lines, body, step) ==
    IF ValidDateTime(ymd[1], ymd[2], ymd[3], hour, minute)
    THEN /\ messages' = Flushed
         /\ msg_info' = FlushedInfo
         /\ current_sender' = Some(sender)
         /\ current_dt' = Some(<<ymd[1], ymd[2], ymd[3], hour, minute>>)
         /\ current_header_lines' = header_lines
         /\ current_body_lines' = (IF body # <<>> THEN <<body>> ELSE <<>>)
         /\ open_info' = Some([kind |-> kind, hidx |-> i,
                               amb |-> current_date, bidx |-> <<>>])
         /\ current_date' = Some(ymd)
         /\ i' = i + step
         /\ seen' = (IF step = 2 THEN seen \o <<kind, "time">>
                     ELSE Append(seen, kind))
         /\ UNCHANGED <<lines, pc, result>>
         /\ UNCHANGED notSplit
    ELSE Raise(kind)

\* a header: flush(), then a new message is opened
OpenMessage(kind, sender, ymd, hour, minute, header_lines, body, step) ==
    IF ValidDateTime(ymd[1], ymd[2], ymd[3], hour, minute)
    THEN /\ messages' = Flushed
         /\ msg_info' = FlushedInfo
         /\ current_sender' = Some(sender)
         /\ current_dt' = Some(<<ymd[1], ymd[2], ymd[3], hour, minute>>)
         /\ current_header_lines' = header_lines
         /\ current_body_lines' = (IF body # <<>> THEN <<body>> ELSE <<>>)
         /\ open_info' = Some([kind |-> kind, hidx |-> i,
                               amb |-> current_date, bidx |-> <<>>])
         /\ i' = i + step
         /\ seen' = (IF step = 2 THEN seen \o <<kind, "time">>
                     ELSE Append(seen, kind))
         /\ UNCHANGED <<lines, current_date, pc, result>>
         /\ UNCHANGED notSplit
    ELSE Raise(kind)

DateDivider ==
    /\ Scanning
    /\ IsDivider
    /\ SetDate("divider", Val(RE_DATE_DIVIDER_search(Line)))

DateLine ==
    /\ Scanning
    /\ IsDateLine
    /\ SetDate("dateline", Val(RE_DATE_LINE_fullmatch(Line)))

AndroidInline ==
    /\ Scanning
    /\ IsAndroid
    /\ LET g == Val(RE_ANDROID_INLINE_match(Line))
           ampm == g.time[1]
           h == g.time[2]
           minute == g.time[3]
           sender == Strip(g.sender)
       IN  OpenMessage("android", sender, g.date,
                       AndroidHour(ampm, h), minute,
                       << <<FmtDate(g.date[1], g.date[2], g.date[3]), SP,
                            FmtTime(ampm, h, minute), ",", SP>> \o sender >>,
                       Strip(g.body), 1)

InlineMsg ==
    /\ Scanning
    /\ IsInline
    /\ LET g == Val(RE_INLINE_MSG_match(Line))
           ampm == g.time[1]
           h == g.time[2]
           minute == g.time[3]
       IN  OpenMessage("inline", g.sender, Val(current_date),
                       InlineHour(ampm, h), minute,
                       << <<"[">> \o g.sender \o <<"]", SP, "[",
                            FmtTime(ampm, h, minute), "]">> >>,
                       Strip(g.body), 1)

\* NameTime, changed to advance the scan by one line only
NameTime_stepOne ==
    /\ Scanning
    /\ IsNameTime
    /\ LET t == Val(RE_TIME_ONLY_fullmatch(Strip(lines[i + 1])))
       IN  OpenMessage("name", Line, Val(current_date),
                       NameTimeHour(t[1], t[2]), t[3],
                       <<Line, Strip(lines[i + 1])>>,
                       <<>>, 1)

NameTime ==
    /\ Scanning
    /\ IsNameTime
    /\ LET t == Val(RE_TIME_ONLY_fullmatch(Strip(lines[i + 1])))
       IN  OpenMessage("name", Line, Val(current_date),
                       NameTimeHour(t[1], t[2]), t[3],
                       <<Line, Strip(lines[i + 1])>>,
                       <<>>, 2)

\* BodyLine, changed to drop a line of dialect A shape instead of appending it
BodyLine_dropsBracketLine ==
    /\ Scanning
    /\ ~IsDivider /\ ~IsDateLine /\ ~IsAndroid /\ ~IsInline /\ ~IsNameTime
    /\ IF current_dt # None /\ RE_INLINE_MSG_match(Line) = None
       THEN /\ current_body_lines' = Append(current_body_lines, lines[i])
            /\ open_info' = Some([Val(open_info) EXCEPT
                                     !.bidx = Append(@, i)])
            /\ seen' = Append(seen, "body")
       ELSE /\ UNCHANGED <<current_body_lines, open_info>>
            /\ seen' = Append(seen, "noise")
    /\ i' = i + 1
    /\ UNCHANGED <<lines, current_date, current_sender, current_dt,
                   current_header_lines, messages, msg_info, pc, result>>
    /\ UNCHANGED notSplit

\* BodyLine, changed to append the trimmed line instead of the raw one
BodyLine_trimmed ==
    /\ Scanning
    /\ ~IsDivider /\ ~IsDateLine /\ ~IsAndroid /\ ~IsInline /\ ~IsNameTime
    /\ IF current_dt # None
       THEN /\ current_body_lines' = Append(current_body_lines, Line)
            /\ open_info' = Some([Val(open_info) EXCEPT
                                     !.bidx = Append(@, i)])
            /\ seen' = Append(seen, "body")
       ELSE /\ UNCHANGED <<current_body_lines, open_info>>
            /\ seen' = Append(seen, "noise")
    /\ i' = i + 1
    /\ UNCHANGED <<lines, current_date, current_sender, current_dt,
                   current_header_lines, messages, msg_info, pc, result>>
    /\ UNCHANGED notSplit

\* no pattern applies: the raw line joins the open message's body, or is dropped
BodyLine ==
    /\ Scanning
    /\ ~IsDivider /\ ~IsDateLine /\ ~IsAndroid /\ ~IsInline /\ ~IsNameTime
    /\ IF current_dt # None
       THEN /\ current_body_lines' = Append(current_body_lines, lines[i])
            /\ open_info' = Some([Val(open_info) EXCEPT
                                     !.bidx = Append(@, i)])
            /\ seen' = Append(seen, "body")
       ELSE /\ UNCHANGED <<current_body_lines, open_info>>
            /\ seen' = Append(seen, "noise")
    /\ i' = i + 1
    /\ UNCHANGED <<lines, current_date, current_sender, current_dt,
                   current_header_lines, messages, msg_info, pc, result>>
    /\ UNCHANGED notSplit

\* Finish, changed to return without the final flush()
Finish_noFlush ==
    /\ pc = "scan"
    /\ i > Len(lines)
    /\ result' = Some(messages)
    /\ pc' = "done"
    /\ UNCHANGED <<messages, msg_info, current_sender, current_dt,
                   current_header_lines, current_body_lines, open_info>>
    /\ UNCHANGED <<lines, i, current_date, seen>>
    /\ UNCHANGED notSplit

\* the loop has ended: the final flush() and return messages
Finish ==
    /\ pc = "scan"
    /\ i > Len(lines)
    /\ messages' = Flushed
    /\ msg_info' = FlushedInfo
    /\ current_sender' = None
    /\ current_dt' = None
    /\ current_header_lines' = <<>>
    /\ current_body_lines' = <<>>
    /\ open_info' = None
    /\ result' = Some(Flushed)
    /\ pc' = "done"
    /\ UNCHANGED <<lines, i, current_date, seen>>
    /\ UNCHANGED notSplit

(***************************************************************************)
(* Input transcripts: every sequence of 1..MaxLines lines of LineSet       *)
(* (str.split always yields at least one line).                            *)
(***************************************************************************)
MaxLines == 4

L_blank    == <<>>
L_divider  == <<DASHES, SP, "2026y 1m 4d", SP, "Sunday", SP, DASHES>>
L_dateline == <<"2026y 1m 5d", SP, "(Mon)">>
L_baddate  == <<DASHES, SP, "2026y 13m 1d", SP, DASHES>>
L_android  == <<"2026y 01m 03d", SP, "PM 12:05", ",", SP, "Kim", SP, ":">>
L_inline   == <<"[", "Lee", "]", SP, "[", "AM 12:30", "]", SP, "yo">>
L_badhour  == <<"[", "Lee", "]", SP, "[", "PM 13:00", "]", SP, "yo">>
L_name     == <<"Park">>
L_time     == <<"PM 7:15">>
L_text     == <<SP, "hello", SP, "all">>
L_textdate == <<"see", SP, DASHES, SP, "2026y 2m 1d">>

LineSet ==
    { L_blank, L_divider, L_dateline, L_baddate, L_android, L_inline,
      L_badhour, L_name, L_time, L_text, L_textdate }

Transcripts == UNION { [1..n -> LineSet] : n \in 1..MaxLines }

Init ==
    /\ lines \in Transcripts
    /\ i = 1
    /\ current_date = None
    /\ current_sender = None
    /\ current_dt = None
    /\ current_header_lines = <<>>
    /\ current_body_lines = <<>>
    /\ messages = <<>>
    /\ pc = "scan"
    /\ result = None
    /\ seen = <<>>
    /\ open_info = None
    /\ msg_info = <<>>
    /\ IdlePure
    /\ IdleFilter
    /\ IdleOutput
    /\ IdleReport

Next ==
    \/ DateDivider
    \/ DateLine
    \/ AndroidInline
    \/ InlineMsg
    \/ NameTime
    \/ BodyLine
    \/ Finish

Spec == Init /\ [][Next]_vars

(***************************************************************************)
(* Longer transcripts of well-formed lines only (no out-of-range date or   *)
(* hour, no date inside a text line), for what takes five lines to show.   *)
(***************************************************************************)
MaxLongLines == 5

L_androidText == <<"2026y 01m 03d", SP, "PM 12:05", ",", SP, "Kim", SP, ":",
                   SP, "hi", SP>>
L_inlineBare  == <<"[", "Lee", "]", SP, "[", "AM 12:30", "]">>

LongLineSet ==
    { L_divider, L_dateline, L_androidText, L_inline, L_inlineBare, L_name,
      L_time, L_text }

LongTranscripts == UNION { [1..n -> LongLineSet] : n \in 1..MaxLongLines }

InitLong ==
    /\ lines \in LongTranscripts
    /\ i = 1
    /\ current_date = None
    /\ current_sender = None
    /\ current_dt = None
    /\ current_header_lines = <<>>
    /\ current_body_lines = <<>>
    /\ messages = <<>>
    /\ pc = "scan"
    /\ result = None
    /\ seen = <<>>
    /\ open_info = None
    /\ msg_info = <<>>
    /\ IdlePure
    /\ IdleFilter
    /\ IdleOutput
    /\ IdleReport

SpecLong == InitLong /\ [][Next]_vars

(***************************************************************************)
(* The pass under fairness: the while loop and the return always go on to  *)
(* their next step (nothing in split_messages waits or blocks).            *)
(***************************************************************************)
MaxLiveLines == 3

LiveLineSet ==
    { L_divider, L_dateline, L_android, L_inline, L_badhour, L_name, L_time }

LiveTranscripts == UNION { [1..n -> LiveLineSet] : n \in 1..MaxLiveLines }

InitLive ==
    /\ lines \in LiveTranscripts
    /\ i = 1
    /\ current_date = None
    /\ current_sender = None
    /\ current_dt = None
    /\ current_header_lines = <<>>
    /\ current_body_lines = <<>>
    /\ messages = <<>>
    /\ pc = "scan"
    /\ result = None
    /\ seen = <<>>
    /\ open_info = None
    /\ msg_info = <<>>
    /\ IdlePure
    /\ IdleFilter
    /\ IdleOutput
    /\ IdleReport

SpecLive == InitLive /\ [][Next]_vars /\ WF_vars(Next)

(***************************************************************************)
(* Properties of split_messages                                            *)
(***************************************************************************)
DateKinds == {"divider", "dateline"}
HeaderKinds == {"android", "inline", "name"}

\* the (y, m, d) groups of input line j, a line the scan took as a date line
LineDate(j) ==
    IF seen[j] = "divider"
    THEN Val(RE_DATE_DIVIDER_search(Strip(lines[j])))
    ELSE Val(RE_DATE_LINE_fullmatch(Strip(lines[j])))

Max(S) == CHOOSE x \in S : \A y \in S : x >= y

\* a line with something other than whitespace on it
NonEmptyLine(l) == Strip(l) # <<>>

\* C1: every Message that split_messages has emitted has a body with at least
\* one non-empty line (a header followed only by blank lines yields no Message).
C1_EveryMessageHasNonEmptyBody ==
    \A k \in 1..Len(messages) :
        \E b \in 1..Len(messages[k].body_lines) :
            NonEmptyLine(messages[k].body_lines[b])

Hour24(ampm, h) ==
    CASE ampm = "AM" /\ h = 12 -> 0
      [] ampm = "AM" /\ h # 12 -> h
      [] ampm = "PM" /\ h = 12 -> 12
      [] ampm = "PM" /\ h # 12 -> h + 12

TimeOutOfRange(t) == Hour24(t[1], t[2]) \notin 0..23 \/ t[3] \notin 0..59

DateOutOfRange(ymd) ==
    \/ ymd[2] \notin 1..12
    \/ ymd[3] \notin 1..DaysInMonth(ymd[1], ymd[2])

\* input line j, taken by the scan as a date line or a header, carries
\* out-of-range numeric components
OutOfRange(j) ==
    CASE seen[j] \in DateKinds -> DateOutOfRange(LineDate(j))
      [] seen[j] = "android" ->
            LET g == Val(RE_ANDROID_INLINE_match(Strip(lines[j])))
            IN  DateOutOfRange(g.date) \/ TimeOutOfRange(g.time)
      [] seen[j] = "inline" ->
            TimeOutOfRange(Val(RE_INLINE_MSG_match(Strip(lines[j]))).time)
      [] seen[j] = "name" ->
            TimeOutOfRange(Val(RE_TIME_ONLY_fullmatch(Strip(lines[j + 1]))))
      [] OTHER -> FALSE

\* C3: once a recognised date line or header carries out-of-range components,
\* the pass has ended in the error at that very line and nothing is returned.
C3_OutOfRangeIsFatal ==
    /\ \A j \in 1..Len(seen) :
           OutOfRange(j) => pc = "error" /\ i = j /\ result = None
    /\ pc = "error" => result = None /\ OutOfRange(i)
    /\ pc = "done" => result = Some(messages)

\* C3 witness: the error struck after a message had been completed.
C3_Witness ==
    /\ pc = "error"
    /\ Len(messages) >= 1
    /\ seen[i] \in DateKinds \cup HeaderKinds
    /\ result = None

(***************************************************************************)
(* The date/time helpers, called on their own, one call per behaviour.     *)
(* The hour and the month/day texts are one or two digits (\d{1,2}).       *)
(***************************************************************************)
MaxTwoDigits == 99

\* _infer_year, changed to roll back also when the candidate is today itself
infer_year_rollsBackToday(month, day, today) ==
    IF ~ValidDate(today[1], month, day) THEN None
    ELSE IF DateLE(today, <<today[1], month, day>>)
         THEN Some(today[1] - 1)
         ELSE Some(today[1])

\* _infer_year(month, day, today): None when date(today.year, month, day)
\* raises ValueError, else the inferred year
infer_year(month, day, today) ==
    IF ~ValidDate(today[1], month, day) THEN None
    ELSE IF ~DateLE(<<today[1], month, day>>, today)
         THEN Some(today[1] - 1)
         ELSE Some(today[1])

\* parse_kakao_datetime on a text whose first match is RE_KO_MD_TIME with the
\* groups (mo, d, ampm, h, mi): None when a constructor raises ValueError
parse_md_time(mo, d, ampm, h, mi, today) ==
    LET y == infer_year(mo, d, today)
    IN  IF y = None THEN None
        ELSE IF ~ValidDateTime(Val(y), mo, d, ampm_to_24h(h, ampm), mi)
             THEN None
             ELSE Some(<<Val(y), mo, d, ampm_to_24h(h, ampm), mi>>)

\* reference dates ("today")
Todays ==
    { <<2026, 1, 10>>, <<2024, 2, 29>>, <<2024, 3, 1>>, <<2025, 12, 31>>,
      <<2025, 1, 1>> }

AmPm == {"AM", "PM"}

InitPure ==
    /\ call = None
    /\ IdleSplit
    /\ IdleFilter
    /\ IdleOutput
    /\ IdleReport

Call_ampm_to_24h ==
    /\ call = None
    /\ \E h \in 0..MaxTwoDigits, ampm \in AmPm \cup {""} :
           /\ call' = Some([fn |-> "_ampm_to_24h", args |-> <<h, ampm>>,
                            ret |-> Some(ampm_to_24h(h, ampm))])
           /\ UNCHANGED notPure

Call_AndroidHour ==
    /\ call = None
    /\ \E h \in 0..MaxTwoDigits, ampm \in AmPm :
           /\ call' = Some([fn |-> "android", args |-> <<h, ampm>>,
                            ret |-> Some(AndroidHour(ampm, h))])
           /\ UNCHANGED notPure

Call_InlineHour ==
    /\ call = None
    /\ \E h \in 0..MaxTwoDigits, ampm \in AmPm :
           /\ call' = Some([fn |-> "inline", args |-> <<h, ampm>>,
                            ret |-> Some(InlineHour(ampm, h))])
           /\ UNCHANGED notPure

Call_NameTimeHour ==
    /\ call = None
    /\ \E h \in 0..MaxTwoDigits, ampm \in AmPm :
           /\ call' = Some([fn |-> "name", args |-> <<h, ampm>>,
                            ret |-> Some(NameTimeHour(ampm, h))])
           /\ UNCHANGED notPure

Call_infer_year ==
    /\ call = None
    /\ \E month \in 0..MaxTwoDigits, day \in 0..MaxTwoDigits, today \in Todays :
           /\ call' = Some([fn |-> "_infer_year", args |-> <<month, day, today>>,
                            ret |-> infer_year(month, day, today)])
           /\ UNCHANGED notPure

Call_parse_md_time ==
    /\ call = None
    /\ \E mo \in 0..MaxTwoDigits, d \in 0..MaxTwoDigits, today \in Todays,
          t \in TimeTokens :
           LET f == TimeFields(t)
           IN  /\ call' = Some([fn |-> "parse_kakao_datetime",
                                args |-> <<mo, d, today, f>>,
                                ret |-> parse_md_time(mo, d, f[1], f[2], f[3],
                                                      today)])
               /\ UNCHANGED notPure

NextPure ==
    \/ Call_ampm_to_24h
    \/ Call_AndroidHour
    \/ Call_InlineHour
    \/ Call_NameTimeHour
    \/ Call_infer_year
    \/ Call_parse_md_time

SpecPure == InitPure /\ [][NextPure]_vars

Called(fn) == call # None /\ Val(call).fn = fn

\* the conversion as the specification states it; no marker: unchanged
Hour24OrBare(ampm, h) == IF ampm = "" THEN h ELSE Hour24(ampm, h)

\* C4: _ampm_to_24h and the three inline conversions all compute AM 12 -> 0,
\* AM h -> h, PM 12 -> 12, PM h -> h + 12 (no marker: h), and for an hour in
\* 1..12 the result is in 0..23.
C4_AmPmConversion ==
    \A fn \in {"_ampm_to_24h", "android", "inline", "name"} :
        Called(fn) =>
            LET h == Val(call).args[1]
                ampm == Val(call).args[2]
                ret == Val(Val(call).ret)
            IN  /\ ret = Hour24OrBare(ampm, h)
                /\ (h \in 1..12 /\ ampm # "") => ret \in 0..23
                /\ (h \in 1..12 /\ ampm = "") => ret = h

\* C4 witness: the dialect A conversion has mapped PM 7 to 19.
C4_Witness ==
    /\ Called("inline")
    /\ Val(call).args = <<7, "PM">>
    /\ Val(call).ret = Some(19)

\* (today.year, month, day) is a calendar date on or before today
OnOrBefore(month, day, today) ==
    /\ ValidDate(today[1], month, day)
    /\ month < today[2] \/ (month = today[2] /\ day <= today[3])

\* (today.year, month, day) is a calendar date strictly after today
StrictlyAfter(month, day, today) ==
    /\ ValidDate(today[1], month, day)
    /\ month > today[2] \/ (month = today[2] /\ day > today[3])

\* C5: the inferred year is today's year for a month/day on or before today,
\* today's year minus one for a month/day after today, and never another
\* year; parse_kakao_datetime stamps a year-less match with that year.
C5_YearInference ==
    /\ Called("_infer_year") =>
           LET month == Val(call).args[1]
               day == Val(call).args[2]
               today == Val(call).args[3]
               ret == Val(call).ret
           IN  /\ OnOrBefore(month, day, today) => ret = Some(today[1])
               /\ StrictlyAfter(month, day, today) => ret = Some(today[1] - 1)
               /\ ret \in {None, Some(today[1]), Some(today[1] - 1)}
               /\ (today = <<2026, 1, 10>> /\ month = 12 /\ day = 25)
                      => ret = Some(2025)
               /\ (today = <<2026, 1, 10>> /\ month = 1 /\ day = 5)
                      => ret = Some(2026)
    /\ Called("parse_kakao_datetime") =>
           LET mo == Val(call).args[1]
               d == Val(call).args[2]
               today == Val(call).args[3]
               ret == Val(call).ret
           IN  ret # None =>
                   /\ OnOrBefore(mo, d, today) => Val(ret)[1] = today[1]
                   /\ StrictlyAfter(mo, d, today) => Val(ret)[1] = today[1] - 1

\* C5 witness: with today 2026-01-10, 12/25 has been given the year 2025.
C5_Witness ==
    /\ Called("_infer_year")
    /\ Val(call).args = <<12, 25, <<2026, 1, 10>>>>
    /\ Val(call).ret = Some(2025)

(***************************************************************************)
(* filter_messages                                                         *)
(***************************************************************************)
\* KMessage.body_text()
body_text(m) == Strip(Join(<<NL>>, m.body_lines))

\* the message the loop is at
FM == in_messages[f_k]

Filtering == f_pc = "loop" /\ f_k <= Len(in_messages)

\* InDateRange, changed to exclude the end date
InDateRange_endExclusive(m) ==
    /\ DateLE(start_d, DateOf(m.sent_at))
    /\ DateLE(DateOf(m.sent_at), end_d)
    /\ DateOf(m.sent_at) # end_d

\* start_d <= md <= end_d
InDateRange(m) ==
    /\ DateLE(start_d, DateOf(m.sent_at))
    /\ DateLE(DateOf(m.sent_at), end_d)

\* any(s in m.sender or s in header_join for s in senders)
SenderMatches(m) ==
    LET header_join == Join(<<SP>>, m.header_lines)
    IN  \E k \in 1..Len(senders) :
            Contains(senders[k], m.sender) \/ Contains(senders[k], header_join)

\* any(k in body for k in keywords)
KeywordMatches(m) ==
    \E k \in 1..Len(keywords) : Contains(keywords[k], body_text(m))

PassesSender(m) == senders = <<>> \/ SenderMatches(m)
PassesKeyword(m) == keywords = <<>> \/ KeywordMatches(m)

\* the date is outside the range: continue
FilterSkipDate ==
    /\ Filtering
    /\ ~InDateRange(FM)
    /\ f_k' = f_k + 1
    /\ UNCHANGED <<in_messages, start_d, end_d, senders, keywords, results,
                   f_pc>>
    /\ UNCHANGED notFilter

\* a sender list is given and no term matches: continue
FilterSkipSender ==
    /\ Filtering
    /\ InDateRange(FM)
    /\ ~PassesSender(FM)
    /\ f_k' = f_k + 1
    /\ UNCHANGED <<in_messages, start_d, end_d, senders, keywords, results,
                   f_pc>>
    /\ UNCHANGED notFilter

\* a keyword list is given and no keyword matches: continue
FilterSkipKeyword ==
    /\ Filtering
    /\ InDateRange(FM)
    /\ PassesSender(FM)
    /\ ~PassesKeyword(FM)
    /\ f_k' = f_k + 1
    /\ UNCHANGED <<in_messages, start_d, end_d, senders, keywords, results,
                   f_pc>>
    /\ UNCHANGED notFilter

\* FilterKeep's effect, changed to put the message at the front
KeepMessage_atFront(m) == results' = <<m>> \o results

\* results.append(m)
KeepMessage(m) == results' = Append(results, m)

FilterKeep ==
    /\ Filtering
    /\ InDateRange(FM)
    /\ PassesSender(FM)
    /\ PassesKeyword(FM)
    /\ KeepMessage(FM)
    /\ f_k' = f_k + 1
    /\ UNCHANGED <<in_messages, start_d, end_d, senders, keywords, f_pc>>
    /\ UNCHANGED notFilter

\* return results
FilterReturn ==
    /\ f_pc = "loop"
    /\ f_k > Len(in_messages)
    /\ f_pc' = "done"
    /\ UNCHANGED <<in_messages, start_d, end_d, senders, keywords, f_k,
                   results>>
    /\ UNCHANGED notFilter

(***************************************************************************)
(* Inputs of filter_messages: up to MaxMsgs messages, a date range in      *)
(* either order, up to MaxTerms sender terms and keywords.                 *)
(***************************************************************************)
MaxMsgs == 2
MaxTerms == 2

FM_kim ==
    KMessage(<<"K", "i", "m">>, <<2026, 1, 3, 12, 5>>,
             << <<"2026y 1m 3d", SP, "PM 12:05", ",", SP, "K", "i", "m">> >>,
             << <<"h", "i">> >>)
FM_park ==
    KMessage(<<"P", "a", "r", "k">>, <<2026, 1, 4, 19, 15>>,
             << <<"P", "a", "r", "k">>, <<"PM 7:15">> >>,
             << <<"a">>, <<"b">> >>)
FM_lee ==
    KMessage(<<"L", "e", "e">>, <<2026, 1, 5, 0, 30>>,
             << <<"[", "L", "e", "e", "]", SP, "[", "AM 12:30", "]">> >>,
             << <<>>, <<SP, "o", "k", SP>> >>)
FM_blank ==
    KMessage(<<"UNKNOWN">>, <<2026, 1, 4, 0, 0>>,
             << <<"2026y 1m 4d", SP, "AM 12:00", ",", SP>> >>,
             << <<>> >>)

FilterMsgSet == {FM_kim, FM_park, FM_lee, FM_blank}
FilterDates == { <<2026, 1, 3>>, <<2026, 1, 4>>, <<2026, 1, 5>> }
\* "im" is part of a sender; "rk PM 7:15" only of two header lines joined
SenderTerms == { <<"i", "m">>, <<"r", "k", SP, "PM 7:15">> }
\* "a\nb" spans two body lines; "k " is in a raw body line, not in body_text
KeywordTerms == { <<"a", NL, "b">>, <<"k", SP>> }

SeqsUpTo(S, n) == UNION { [1..k -> S] : k \in 0..n }

InitFilter ==
    /\ in_messages \in SeqsUpTo(FilterMsgSet, MaxMsgs)
    /\ start_d \in FilterDates
    /\ end_d \in FilterDates
    /\ senders \in SeqsUpTo(SenderTerms, MaxTerms)
    /\ keywords \in SeqsUpTo(KeywordTerms, MaxTerms)
    /\ f_k = 1
    /\ results = <<>>
    /\ f_pc = "loop"
    /\ IdleSplit
    /\ IdlePure
    /\ IdleOutput
    /\ IdleReport

NextFilter ==
    \/ FilterSkipDate
    \/ FilterSkipSender
    \/ FilterSkipKeyword
    \/ FilterKeep
    \/ FilterReturn

SpecFilter == InitFilter /\ [][NextFilter]_vars

\* the three conditions of the claim, on one message
KeepsByClaim(m) ==
    LET md == DateOf(m.sent_at)
        joined == Join(<<SP>>, m.header_lines)
        text == Strip(Join(<<NL>>, m.body_lines))
    IN  /\ DateLE(start_d, md) /\ DateLE(md, end_d)
        /\ \/ Len(senders) = 0
           \/ \E t \in { senders[k] : k \in 1..Len(senders) } :
                  Contains(t, m.sender) \/ Contains(t, joined)
        /\ \/ Len(keywords) = 0
           \/ \E w \in { keywords[k] : k \in 1..Len(keywords) } :
                  Contains(w, text)

\* how many of the first n input messages satisfy the claim's conditions
RECURSIVE CountKept(_)
CountKept(n) ==
    IF n = 0 THEN 0
    ELSE CountKept(n - 1) + (IF KeepsByClaim(in_messages[n]) THEN 1 ELSE 0)

\* C6: a message is kept if and only if it is in the inclusive date range,
\* passes the sender terms and passes the keywords; the loop always has a
\* branch to take and ends; start > end keeps nothing.
C6_KeepIffAllThree ==
    /\ f_pc \in {"loop", "done"} =>
           /\ Len(results) = CountKept(f_k - 1)
           /\ \A k \in 1..(f_k - 1) :
                  KeepsByClaim(in_messages[k]) <=>
                      \E r \in 1..Len(results) : results[r] = in_messages[k]
    /\ f_pc = "loop" => ENABLED NextFilter
    /\ (f_pc = "done" /\ ~DateLE(start_d, end_d)) => results = <<>>

\* C6 witness: of two messages in the date range, the one matched only through
\* its joined header lines was kept and the other dropped by the sender terms.
C6_Witness ==
    /\ f_pc = "done"
    /\ in_messages = <<FM_kim, FM_park>>
    /\ senders = << <<"r", "k", SP, "PM 7:15">> >>
    /\ results = <<FM_park>>

RECURSIVE IsSubsequence(_, _)
IsSubsequence(a, b) ==
    IF a = <<>> THEN TRUE
    ELSE IF b = <<>> THEN FALSE
    ELSE IF Head(a) = Head(b) THEN IsSubsequence(Tail(a), Tail(b))
    ELSE IsSubsequence(a, Tail(b))

DatedInRange(m) ==
    DateLE(start_d, DateOf(m.sent_at)) /\ DateLE(DateOf(m.sent_at), end_d)

\* C7: the result is a subsequence of the input, in input order, of unmodified
\* messages; with no sender terms and no keywords it is exactly the messages
\* dated in the range.
C7_OrderPreservingSubsequence ==
    f_pc \in {"loop", "done"} =>
        /\ IsSubsequence(results, SubSeq(in_messages, 1, f_k - 1))
        /\ (f_pc = "done" /\ senders = <<>> /\ keywords = <<>>) =>
               results = SelectSeq(in_messages, DatedInRange)

\* C7 witness: with no sender terms and no keywords, two different messages
\* have been kept, in input order.
C7_Witness ==
    /\ f_pc = "done"
    /\ senders = <<>> /\ keywords = <<>>
    /\ Len(results) = 2
    /\ results[1] # results[2]
    /\ results = in_messages

(***************************************************************************)
(* The output stage: KMessage.to_block_text and the output_blocks loop     *)
(***************************************************************************)
DigitChar == <<"0", "1", "2", "3", "4", "5", "6", "7", "8", "9">>

\* a number written in w digits, zero padded (%Y, %m, %d, %H, %M)
RECURSIVE Digits(_, _)
Digits(n, w) ==
    IF w = 0 THEN <<>>
    ELSE Append(Digits(n \div 10, w - 1), DigitChar[(n % 10) + 1])

\* sent_at.strftime("%Y-%m-%d %H:%M"), for a four-digit year
strftime(dt) ==
    Digits(dt[1], 4) \o <<"-">> \o Digits(dt[2], 2) \o <<"-">>
        \o Digits(dt[3], 2) \o <<SP>> \o Digits(dt[4], 2) \o <<":">>
        \o Digits(dt[5], 2)

\* KMessage.to_block_text(include_header)
to_block_text(m, with_header) ==
    LET body == body_text(m)
    IN  IF with_header
        THEN Strip(<<"[">> \o m.sender \o <<SP, "|", SP>>
                       \o strftime(m.sent_at) \o <<"]", NL>> \o body)
        ELSE Strip(body)

\* OutputText, changed to put a single newline between blocks
OutputText_singleNewline(blocks) == Strip(Join(<<NL>>, blocks))

\* "\n\n".join(output_blocks).strip()
OutputText(blocks) == Strip(Join(<<NL, NL>>, blocks))

OM == filtered[o_k]

Formatting == o_pc = "loop" /\ o_k <= Len(filtered)

\* if not m.body_text(): continue
OutputSkipEmpty ==
    /\ Formatting
    /\ body_text(OM) = <<>>
    /\ o_k' = o_k + 1
    /\ UNCHANGED <<filtered, include_header, output_blocks, output_text, o_pc>>
    /\ UNCHANGED notOutput

\* output_blocks.append(m.to_block_text(include_header=include_header))
OutputAppend ==
    /\ Formatting
    /\ body_text(OM) # <<>>
    /\ output_blocks' = Append(output_blocks,
                               to_block_text(OM, include_header))
    /\ o_k' = o_k + 1
    /\ UNCHANGED <<filtered, include_header, output_text, o_pc>>
    /\ UNCHANGED notOutput

\* output_text = "\n\n".join(output_blocks).strip()
OutputJoin ==
    /\ o_pc = "loop"
    /\ o_k > Len(filtered)
    /\ output_text' = OutputText(output_blocks)
    /\ o_pc' = "done"
    /\ UNCHANGED <<filtered, include_header, o_k, output_blocks>>
    /\ UNCHANGED notOutput

(***************************************************************************)
(* Inputs of the output stage: up to MaxOutMsgs filtered messages.         *)
(***************************************************************************)
MaxOutMsgs == 3

\* yields "[Kim | 2026-01-04 21:05]\nhello"
OM_kim ==
    KMessage(<<"K", "i", "m">>, <<2026, 1, 4, 21, 5>>, <<>>,
             << <<"h", "e", "l", "l", "o">> >>)
\* blank lines and blanks around the text
OM_lee ==
    KMessage(<<"L", "e", "e">>, <<2026, 12, 31, 0, 30>>, <<>>,
             << <<>>, <<SP, "o", "k", SP>>, <<>> >>)
\* nothing but blank lines
OM_blank ==
    KMessage(<<"P", "a", "r", "k">>, <<2026, 1, 5, 9, 0>>, <<>>,
             << <<>>, <<SP>> >>)
\* a blank line inside the text
OM_gap ==
    KMessage(<<"UNKNOWN">>, <<2026, 1, 5, 23, 59>>, <<>>,
             << <<"a">>, <<>>, <<"b">> >>)

OutputMsgSet == {OM_kim, OM_lee, OM_blank, OM_gap}

InitOutput ==
    /\ filtered \in SeqsUpTo(OutputMsgSet, MaxOutMsgs)
    /\ include_header \in BOOLEAN
    /\ o_k = 1
    /\ output_blocks = <<>>
    /\ output_text = <<>>
    /\ o_pc = "loop"
    /\ IdleSplit
    /\ IdlePure
    /\ IdleFilter
    /\ IdleReport

NextOutput ==
    \/ OutputSkipEmpty
    \/ OutputAppend
    \/ OutputJoin

SpecOutput == InitOutput /\ [][NextOutput]_vars

\* the trimmed body text of a message
TrimmedText(m) == Strip(Join(<<NL>>, m.body_lines))
HasText(m) == TrimmedText(m) # <<>>

\* the value of a sequence of digit characters
RECURSIVE NumberOf(_)
NumberOf(ds) ==
    IF ds = <<>> THEN 0
    ELSE 10 * NumberOf(SubSeq(ds, 1, Len(ds) - 1))
             + (CHOOSE v \in 0..9 : DigitChar[v + 1] = ds[Len(ds)])

IsDigits(ds) == \A k \in 1..Len(ds) : \E v \in 1..10 : DigitChar[v] = ds[k]

\* st reads YYYY-MM-DD HH:MM and names the date and time dt
IsStampOf(st, dt) ==
    /\ Len(st) = 16
    /\ st[5] = "-" /\ st[8] = "-" /\ st[11] = SP /\ st[14] = ":"
    /\ \A r \in {<<1, 4>>, <<6, 7>>, <<9, 10>>, <<12, 13>>, <<15, 16>>} :
           IsDigits(SubSeq(st, r[1], r[2]))
    /\ NumberOf(SubSeq(st, 1, 4)) = dt[1]
    /\ NumberOf(SubSeq(st, 6, 7)) = dt[2]
    /\ NumberOf(SubSeq(st, 9, 10)) = dt[3]
    /\ NumberOf(SubSeq(st, 12, 13)) = dt[4]
    /\ NumberOf(SubSeq(st, 15, 16)) = dt[5]

\* b is the block the claim describes for message m
IsBlockOf(b, m) ==
    IF include_header
    THEN LET n == Len(m.sender)
         IN  /\ Len(b) = n + 22 + Len(TrimmedText(m))
             /\ b[1] = "["
             /\ SubSeq(b, 2, n + 1) = m.sender
             /\ SubSeq(b, n + 2, n + 4) = <<SP, "|", SP>>
             /\ IsStampOf(SubSeq(b, n + 5, n + 20), m.sent_at)
             /\ b[n + 21] = "]"
             /\ b[n + 22] = NL
             /\ SubSeq(b, n + 23, Len(b)) = TrimmedText(m)
    ELSE b = TrimmedText(m)

\* where block k starts in the output: after the blocks before it and the two
\* newlines that follow each of them
RECURSIVE BlockOffset(_)
BlockOffset(k) ==
    IF k = 1 THEN 0
    ELSE BlockOffset(k - 1) + Len(output_blocks[k - 1]) + 2

\* C8: one block per message with non-empty trimmed body text, in order, each
\* "[sender | YYYY-MM-DD HH:MM]" newline body (or the body alone); one blank
\* line between consecutive blocks; no leading or trailing whitespace.
C8_BlocksAndSeparators ==
    o_pc = "done" =>
        LET shown == SelectSeq(filtered, HasText)
            n == Len(output_blocks)
        IN  /\ n = Len(shown)
            /\ \A k \in 1..n : IsBlockOf(output_blocks[k], shown[k])
            /\ Len(output_text) =
                   IF n = 0 THEN 0 ELSE BlockOffset(n) + Len(output_blocks[n])
            /\ \A k \in 1..n :
                   /\ SubSeq(output_text, BlockOffset(k) + 1,
                             BlockOffset(k) + Len(output_blocks[k]))
                          = output_blocks[k]
                   /\ k < n =>
                          LET e == BlockOffset(k) + Len(output_blocks[k])
                          IN  SubSeq(output_text, e + 1, e + 2) = <<NL, NL>>
            /\ output_text # <<>> =>
                   /\ ~IsSpace(output_text[1])
                   /\ ~IsSpace(output_text[Len(output_text)])

\* C8 witness: with the header on, a message without text between two
\* messages with text gave two blocks, the first "[Kim | 2026-01-04 21:05]"
\* newline "hello".
C8_Witness ==
    /\ o_pc = "done"
    /\ include_header
    /\ filtered = <<OM_kim, OM_blank, OM_lee>>
    /\ Len(output_blocks) = 2
    /\ output_blocks[1] =
           <<"[", "K", "i", "m", SP, "|", SP, "2", "0", "2", "6", "-", "0",
             "1", "-", "0", "4", SP, "2", "1", ":", "0", "5", "]", NL, "h",
             "e", "l", "l", "o">>

(***************************************************************************)
(* parse_cell_report.  The marker texts are transliterated:                *)
(*   "SundayStatus" 주일 예배 현황       "WeekStatus" 주간 셀예배 출결 현황        *)
(*   "- total" - 재적    "- attend" - 출석    "bible reading" 성경읽기          *)
(*   "- prayer" - 기도   "- offering" - 헌금  "absentees" 이번주 결석자          *)
(*   "- sunday service" - 주일예배   "- afternoon" - 오후예배   "- CLT"        *)
(*   "- bible college" - 성경대학    "- friday" - 금요성령집회                   *)
(*   "- dawn" - 새벽예배   "3-3cell" 3-3셀   "10,000won" 10,000원             *)
(***************************************************************************)
\* marker in t, for a marker that is one symbol
Has(marker, t) == \E k \in 1..Len(t) : t[k] = marker

\* RE_CELL_ID: 3[- ]?(\d)셀 and int() of its group
CellTable == { <<"3-3cell", 3>> }
\* symbols that hold digits, with int() of the first run of digits in them
DigitTable ==
    { <<"10", 10>>, <<"8", 8>>, <<"5", 5>>, <<"7", 7>>, <<"2", 2>>,
      <<"3-3cell", 3>>, <<"10,000won", 10>> }
\* RE_MONEY: ([\d,]+)원 with int() of its group, the commas removed; None where
\* int() raises ValueError (the group holds commas only)
MoneyTable == { <<"10,000won", <<10000>>>>, <<",won", <<>>>> }

Lookup(table, c) == (CHOOSE p \in table : p[1] = c)[2]
Keys(table) == { p[1] : p \in table }

\* the first symbol of t that is in S (0 if none)
RECURSIVE FirstIn(_, _, _)
FirstIn(t, S, p) ==
    IF p > Len(t) THEN 0
    ELSE IF t[p] \in S THEN p ELSE FirstIn(t, S, p + 1)

\* extract_number(text)
extract_number(t) ==
    LET p == FirstIn(t, Keys(DigitTable), 1)
    IN  IF p = 0 THEN 0 ELSE Lookup(DigitTable, t[p])

\* extract_money(text): Some(amount), or None when int() raises ValueError
extract_money(t) ==
    LET p == FirstIn(t, Keys(MoneyTable), 1)
    IN  IF p = 0 THEN Some(0) ELSE Lookup(MoneyTable, t[p])

\* str.splitlines() of a text without leading or trailing newline
RECURSIVE SplitLines(_)
SplitLines(s) ==
    IF s = <<>> THEN <<>>
    ELSE LET p == Find(s, NL, 1)
         IN  IF p = 0 THEN <<s>>
             ELSE <<SubSeq(s, 1, p - 1)>>
                      \o SplitLines(SubSeq(s, p + 1, Len(s)))

\* CellReport(cell_no=cell_no, leader=msg.sender, devotion={}), changed to
\* start the weekly attendance at the Sunday default of another report
CellReport_weekAttendOne(cell_no, leader) ==
    [cell_no |-> cell_no, leader |-> leader,
     sunday_total |-> 0, sunday_attend |-> 0,
     week_total |-> 0, week_attend |-> 1,
     bible |-> 0, prayer |-> 0, offering |-> 0,
     absentees_sunday |-> <<>>, absentees_week |-> <<>>,
     devotion |-> <<>>]

\* CellReport(cell_no=cell_no, leader=msg.sender, devotion={})
CellReport(cell_no, leader) ==
    [cell_no |-> cell_no, leader |-> leader,
     sunday_total |-> 0, sunday_attend |-> 0,
     week_total |-> 0, week_attend |-> 0,
     bible |-> 0, prayer |-> 0, offering |-> 0,
     absentees_sunday |-> <<>>, absentees_week |-> <<>>,
     devotion |-> <<>>]

\* SetByMode, changed to write the Sunday field when no section header has
\* been met
SetByMode_noneIsSunday(rep, md, sunday_field, week_field, v) ==
    IF md = "week" THEN [rep EXCEPT ![week_field] = v]
    ELSE [rep EXCEPT ![sunday_field] = v]

\* SetByMode, changed to write the weekly field in the Sunday section too
SetByMode_alwaysWeek(rep, md, sunday_field, week_field, v) ==
    IF md = "none" THEN rep ELSE [rep EXCEPT ![week_field] = v]

\* if mode == "sunday": report.<sunday_field> = v
\* elif mode == "week": report.<week_field> = v
SetByMode(rep, md, sunday_field, week_field, v) ==
    IF md = "sunday" THEN [rep EXCEPT ![sunday_field] = v]
    ELSE IF md = "week" THEN [rep EXCEPT ![week_field] = v]
    ELSE rep

\* report.devotion[key] = v
SetDevotion(rep, key, v) ==
    [rep EXCEPT !.devotion = (key :> v) @@ @]

\* the ifs on "- 재적", "- 출석", "성경읽기" and "- 기도"
ApplyCounts(rep, t, md) ==
    LET num == extract_number(t)
        r1 == IF Has("- total", t)
              THEN SetByMode(rep, md, "sunday_total", "week_total", num)
              ELSE rep
        r2 == IF Has("- attend", t)
              THEN SetByMode(r1, md, "sunday_attend", "week_attend", num)
              ELSE r1
        r3 == IF Has("bible reading", t) THEN [r2 EXCEPT !.bible = num]
              ELSE r2
    IN  IF Has("- prayer", t) THEN [r3 EXCEPT !.prayer = num] ELSE r3

\* the if on "- 헌금", where extract_money returns
ApplyOffering(rep, t) ==
    IF Has("- offering", t)
    THEN [rep EXCEPT !.offering = Val(extract_money(t))]
    ELSE rep

\* the ifs on "이번주 결석자" and on the six devotion markers
ApplyRest(rep, t, md) ==
    LET r1 == IF Has("absentees", t)
              THEN SetByMode(rep, md, "absentees_sunday", "absentees_week", t)
              ELSE rep
        r2 == IF Has("- sunday service", t)
              THEN SetDevotion(r1, "sunday", Has("O", t)) ELSE r1
        r3 == IF Has("- afternoon", t)
              THEN SetDevotion(r2, "afternoon", Has("O", t)) ELSE r2
        r4 == IF Has("- CLT", t)
              THEN SetDevotion(r3, "clt", Has("O", t)) ELSE r3
        r5 == IF Has("- bible college", t)
              THEN SetDevotion(r4, "bible_college", Has("O", t)) ELSE r4
        r6 == IF Has("- friday", t)
              THEN SetDevotion(r5, "friday", Has("O", t)) ELSE r5
    IN  IF Has("- dawn", t)
        THEN SetDevotion(r6, "dawn", extract_number(t)) ELSE r6

\* body = msg.body_text()
ReportBody == body_text(r_msg)

\* RE_CELL_ID.search(body): the position of the first cell marker (0 if none)
CellAt == FirstIn(ReportBody, Keys(CellTable), 1)

\* if not m_cell: return None
ReportNoCell ==
    /\ r_pc = "start"
    /\ CellAt = 0
    /\ r_ret' = None
    /\ r_pc' = "done"
    /\ UNCHANGED <<r_msg, r_lines, r_k, mode, report>>
    /\ UNCHANGED notReport

\* report = CellReport(...); lines = body.splitlines(); mode = None
ReportCreate ==
    /\ r_pc = "start"
    /\ CellAt # 0
    /\ report' = Some(CellReport(Lookup(CellTable, ReportBody[CellAt]),
                                 r_msg.sender))
    /\ r_lines' = SplitLines(ReportBody)
    /\ r_k' = 1
    /\ mode' = "none"
    /\ r_pc' = "lines"
    /\ UNCHANGED <<r_msg, r_ret>>
    /\ UNCHANGED notReport

\* the stripped line the loop is at
T == Strip(r_lines[r_k])

InReportLoop == r_pc = "lines" /\ r_k <= Len(r_lines)

\* "주일 예배 현황" in t: mode = "sunday"; continue
ReportSundayHeader ==
    /\ InReportLoop
    /\ Has("SundayStatus", T)
    /\ mode' = "sunday"
    /\ r_k' = r_k + 1
    /\ UNCHANGED <<r_msg, r_lines, report, r_ret, r_pc>>
    /\ UNCHANGED notReport

\* "주간 셀예배 출결 현황" in t: mode = "week"; continue
ReportWeekHeader ==
    /\ InReportLoop
    /\ ~Has("SundayStatus", T)
    /\ Has("WeekStatus", T)
    /\ mode' = "week"
    /\ r_k' = r_k + 1
    /\ UNCHANGED <<r_msg, r_lines, report, r_ret, r_pc>>
    /\ UNCHANGED notReport

\* any other line: every marker is tried in turn; int() in extract_money may
\* raise ValueError, which leaves parse_cell_report
ReportValueLine ==
    /\ InReportLoop
    /\ ~Has("SundayStatus", T)
    /\ ~Has("WeekStatus", T)
    /\ LET counted == ApplyCounts(Val(report), T, mode)
       IN  IF Has("- offering", T) /\ extract_money(T) = None
           THEN /\ report' = Some(counted)
                /\ r_pc' = "error"
                /\ UNCHANGED r_k
           ELSE /\ report' = Some(ApplyRest(ApplyOffering(counted, T), T,
                                            mode))
                /\ r_k' = r_k + 1
                /\ UNCHANGED r_pc
    /\ UNCHANGED <<r_msg, r_lines, mode, r_ret>>
    /\ UNCHANGED notReport

\* return report
ReportReturn ==
    /\ r_pc = "lines"
    /\ r_k > Len(r_lines)
    /\ r_ret' = report
    /\ r_pc' = "done"
    /\ UNCHANGED <<r_msg, r_lines, r_k, mode, report>>
    /\ UNCHANGED notReport

(***************************************************************************)
(* Inputs of parse_cell_report: a message with 1..MaxBodyLines body lines. *)
(***************************************************************************)
MaxBodyLines == 4

R_cell     == <<"3-3cell">>
R_sunday   == <<"SundayStatus">>
R_week     == <<"WeekStatus">>
R_total    == <<"- total", SP, "10">>
R_attend   == <<"- attend", SP, "8">>
R_bible    == <<"bible reading", SP, "5">>
R_prayer   == <<"- prayer", SP, "2">>
R_offering == <<"- offering", SP, "10,000won">>
R_badmoney == <<"- offering", SP, ",won">>
R_absent   == <<SP, "absentees", SP, "Kim">>
R_devotion == <<"- sunday service", SP, "O">>
R_hdrtotal == <<"SundayStatus", SP, "- total", SP, "7">>

ReportLineSet ==
    { R_cell, R_sunday, R_week, R_total, R_attend, R_bible, R_prayer,
      R_offering, R_badmoney, R_absent, R_devotion, R_hdrtotal }

InitReport ==
    /\ r_msg \in { KMessage(<<"Kim">>, <<2026, 1, 4, 21, 5>>, <<>>, b) :
                     b \in UNION { [1..n -> ReportLineSet] :
                                     n \in 1..MaxBodyLines } }
    /\ r_lines = <<>>
    /\ r_k = 1
    /\ mode = "none"
    /\ report = None
    /\ r_ret = None
    /\ r_pc = "start"
    /\ IdleSplit
    /\ IdlePure
    /\ IdleFilter
    /\ IdleOutput

NextReport ==
    \/ ReportNoCell
    \/ ReportCreate
    \/ ReportSundayHeader
    \/ ReportWeekHeader
    \/ ReportValueLine
    \/ ReportReturn

SpecReport == InitReport /\ [][NextReport]_vars

(***************************************************************************)
(* Claims on parse_cell_report.                                            *)
(***************************************************************************)
IsHeaderLine(t) == Has("SundayStatus", t) \/ Has("WeekStatus", t)

\* the section of the most recent section-header line before line k of the
\* body ("none" if there is none)
RECURSIVE SectionBefore(_, _)
SectionBefore(ls, k) ==
    IF k <= 1 THEN "none"
    ELSE IF Has("SundayStatus", ls[k - 1]) THEN "sunday"
    ELSE IF Has("WeekStatus", ls[k - 1]) THEN "week"
    ELSE SectionBefore(ls, k - 1)

DevotionMarkers ==
    { <<"- sunday service", "sunday">>, <<"- afternoon", "afternoon">>,
      <<"- CLT", "clt">>, <<"- bible college", "bible_college">>,
      <<"- friday", "friday">> }

ReportExample == <<R_cell, R_sunday, R_total, R_attend>>

MarkerInBody(marker) ==
    \E k \in 1..Len(r_msg.body_lines) : Has(marker, r_msg.body_lines[k])

CellMarkerInBody == \E c \in Keys(CellTable) : MarkerInBody(c)

\* C10: parse_cell_report returns at most one CellReport for a message, and
\* returns None, without raising, when no line of the body holds a cell
\* marker.  A returned report has the message's sender as leader, and each
\* numeric, absentee and devotion field whose marker is in no line of the
\* body has its default: 0, the empty text, no devotion entry.
C10_ReportDefaults ==
    /\ Len(r_ret) <= 1
    /\ ~CellMarkerInBody => (r_pc # "error" /\ r_ret = None /\ report = None)
    /\ (r_pc = "done" /\ r_ret # None) =>
         LET rep == Val(r_ret)
         IN  /\ CellMarkerInBody
             /\ rep.leader = r_msg.sender
             /\ ~MarkerInBody("- total")
                   => (rep.sunday_total = 0 /\ rep.week_total = 0)
             /\ ~MarkerInBody("- attend")
                   => (rep.sunday_attend = 0 /\ rep.week_attend = 0)
             /\ ~MarkerInBody("bible reading") => rep.bible = 0
             /\ ~MarkerInBody("- prayer") => rep.prayer = 0
             /\ ~MarkerInBody("- offering") => rep.offering = 0
             /\ ~MarkerInBody("absentees")
                   => (rep.absentees_sunday = <<>> /\ rep.absentees_week = <<>>)
             /\ \A d \in DevotionMarkers \cup { <<"- dawn", "dawn">> } :
                   ~MarkerInBody(d[1]) => d[2] \notin DOMAIN rep.devotion

\* a report is returned for a body with a cell marker and a scripture line
\* but no attendance, offering or devotion line
C10_Witness ==
    /\ r_pc = "done"
    /\ r_ret # None
    /\ Val(r_ret).leader = <<"Kim">>
    /\ Val(r_ret).bible = 5
    /\ ~MarkerInBody("- attend")
    /\ ~MarkerInBody("- offering")
    /\ ~MarkerInBody("- sunday service")
    /\ Val(r_ret).week_attend = 0
    /\ Val(r_ret).devotion = <<>>

(***************************************************************************)
(* Further properties of split_messages                                    *)
(***************************************************************************)
\* the whole trimmed line is a date, with optional dashes around it and an
\* optional weekday or parenthesised suffix, and nothing else
WholeLineIsDate(t) ==
    LET a == IF t # <<>> /\ Head(t) = DASHES THEN LStrip(Tail(t)) ELSE t
        b == IF a # <<>> /\ a[Len(a)] = DASHES
             THEN RStrip(SubSeq(a, 1, Len(a) - 1)) ELSE a
    IN  /\ Len(b) >= 1
        /\ b[1] \in DateTokens
        /\ \/ Len(b) = 1
           \/ /\ b[Len(b)] \in HangulWords \cup ParenTokens
              /\ \A k \in 2..(Len(b) - 1) : b[k] = SP

\* C11: every line the scan has treated as a date boundary is, as a whole
\* trimmed line, a date divider or a standalone date; a line of body text or a
\* header that only holds a dash and a date somewhere inside it is not one.
C11_DateBoundaryIsWholeLine ==
    \A j \in 1..Len(seen) :
        seen[j] \in DateKinds => WholeLineIsDate(Strip(lines[j]))

BoundaryKinds == DateKinds \cup HeaderKinds

\* the date lines and headers the scan has met before line j
BoundariesBefore(j) == { k \in 1..(j - 1) : seen[k] \in BoundaryKinds }

\* a message is open when the scan reaches line j: the last boundary before j
\* is a header
OpenAt(j) ==
    /\ BoundariesBefore(j) # {}
    /\ seen[Max(BoundariesBefore(j))] \in HeaderKinds

\* a date line has been met before line j
DatedAt(j) == \E k \in 1..(j - 1) : seen[k] \in DateKinds

\* the emitted messages and the open one: where they came from, their bodies
AllInfo == msg_info \o (IF open_info # None THEN <<Val(open_info)>> ELSE <<>>)
AllBody(k) ==
    IF k <= Len(messages) THEN messages[k].body_lines ELSE current_body_lines

\* input line j stands verbatim in the body of message k, as the b-th of the
\* lines appended after the header
InBodyAt(k, b, j) ==
    LET g == AllInfo[k]
        body == AllBody(k)
    IN  /\ b \in 1..Len(g.bidx)
        /\ g.bidx[b] = j
        /\ Len(body) >= Len(g.bidx)
        /\ body[Len(body) - Len(g.bidx) + b] = lines[j]

InBodyOf(k, j) == \E b \in 1..Len(AllInfo[k].bidx) : InBodyAt(k, b, j)

NameLike(j) ==
    LET t == Strip(lines[j])
    IN  /\ t # <<>>
        /\ Head(t) # "["
        /\ \A c \in 1..Len(t) : t[c] \in HangulWords \cup PlainWords

TimeOnly(j) ==
    Len(Strip(lines[j])) = 1 /\ Strip(lines[j])[1] \in TimeTokens

\* C12: a name + time header has opened a message only where a date line had
\* been met and no message was open; a name-like line followed by a time-only
\* line met while a message is open is no header, both lines stand in the body
\* of that message; so between two name + time headers there is a date line or
\* a dialect A or B header.
C12_NameTimeOnlyWhenClosed ==
    /\ \A j \in 1..Len(seen) :
           seen[j] = "name" => DatedAt(j) /\ ~OpenAt(j)
    /\ \A k \in 1..Len(AllInfo) :
           AllInfo[k].kind = "name" => AllInfo[k].amb # None
    /\ \A j \in 1..(Len(seen) - 1) :
           (OpenAt(j) /\ NameLike(j) /\ TimeOnly(j + 1)) =>
               /\ seen[j] = "body"
               /\ seen[j + 1] = "body"
               /\ \E k \in 1..Len(AllInfo) :
                      \E b \in 1..Len(AllInfo[k].bidx) :
                          InBodyAt(k, b, j) /\ InBodyAt(k, b + 1, j + 1)
    /\ \A j1, j2 \in 1..Len(seen) :
           (j1 < j2 /\ seen[j1] = "name" /\ seen[j2] = "name") =>
               \E k \in (j1 + 1)..(j2 - 1) :
                   seen[k] \in DateKinds \cup {"android", "inline"}

\* a name line and a time line met while a name + time message was open have
\* ended in that message's body, and the transcript gave one message
C12_Witness ==
    /\ pc = "done"
    /\ lines = <<L_divider, L_name, L_time, L_name, L_time>>
    /\ Len(messages) = 1
    /\ msg_info[1].kind = "name"
    /\ messages[1].body_lines = <<L_name, L_time>>

\* sender, timestamp and header lines of the emitted messages and the open one
AllSender(k) ==
    IF k <= Len(messages) THEN messages[k].sender ELSE Val(current_sender)
AllSentAt(k) ==
    IF k <= Len(messages) THEN messages[k].sent_at ELSE Val(current_dt)
AllHeader(k) ==
    IF k <= Len(messages) THEN messages[k].header_lines
    ELSE current_header_lines

\* the (ampm, h, min) a time-only line reads as
TimeOf(j) == (CHOOSE p \in TimeTable : p[1] = Strip(lines[j])[1])[2]

\* C13: a message opened by a name line and the time-only line after it has
\* the name line as sender, the ambient date with the converted time of the
\* second line as timestamp and exactly the two lines as header_lines; the
\* scan has moved on by two lines, and neither line is in any message's body.
C13_NameTimeHeader ==
    /\ \A k \in 1..Len(AllInfo) :
           LET g == AllInfo[k]
               h == g.hidx
           IN  g.kind = "name" =>
                 /\ h + 1 <= Len(seen)
                 /\ seen[h] = "name"
                 /\ seen[h + 1] = "time"
                 /\ TimeOnly(h + 1)
                 /\ AllSender(k) = Strip(lines[h])
                 /\ g.amb # None
                 /\ AllSentAt(k) = Val(g.amb) \o
                        <<Hour24(TimeOf(h + 1)[1], TimeOf(h + 1)[2]),
                          TimeOf(h + 1)[3]>>
                 /\ AllHeader(k) = <<Strip(lines[h]), Strip(lines[h + 1])>>
                 /\ \A k2 \in 1..Len(AllInfo) :
                        ~InBodyOf(k2, h) /\ ~InBodyOf(k2, h + 1)
                 /\ \A k2 \in 1..Len(AllInfo) :
                        \A b \in 1..Len(AllInfo[k2].bidx) :
                            AllInfo[k2].bidx[b] \notin {h, h + 1}
    /\ (pc = "scan" /\ seen # <<>> /\ seen[Len(seen)] = "time") =>
           /\ open_info # None
           /\ Val(open_info).kind = "name"
           /\ Val(open_info).hidx = Len(seen) - 1
           /\ i = Val(open_info).hidx + 2
           /\ current_body_lines = <<>>

\* a name + time header after a divider has given a message with the text
\* line after it as body
C13_Witness ==
    /\ pc = "done"
    /\ lines = <<L_divider, L_name, L_time, L_text>>
    /\ Len(messages) = 1
    /\ messages[1].sender = <<"Park">>
    /\ messages[1].sent_at = <<2026, 1, 4, 19, 15>>
    /\ messages[1].header_lines = <<L_name, L_time>>
    /\ messages[1].body_lines = <<L_text>>

\* line j has the dialect A shape: [name] [AM/PM time] text
DialectA(j) ==
    LET t == Strip(lines[j])
    IN  /\ Len(t) >= 6
        /\ t[1] = "["
        /\ \E q \in 4..(Len(t) - 2) :
               /\ t[q] = "["
               /\ t[q + 1] \in TimeTokens
               /\ t[q + 2] = "]"
               /\ \A c \in 2..(q - 1) : t[c] \in HangulWords \cup {"]", SP}

HeaderGroups(j) ==
    IF seen[j] = "android"
    THEN Val(RE_ANDROID_INLINE_match(Strip(lines[j])))
    ELSE Val(RE_INLINE_MSG_match(Strip(lines[j])))

\* the lines of the input that were appended to message k after its header
AppendedLines(k) ==
    [b \in 1..Len(AllInfo[k].bidx) |-> lines[AllInfo[k].bidx[b]]]

\* the input position after the header at line j
AfterHeader(j) == IF seen[j] = "name" THEN j + 2 ELSE j + 1

\* the header at line j opened a message that gathered a body line
GathersBody(j) ==
    \/ seen[j] \in {"android", "inline"} /\ Strip(HeaderGroups(j).body) # <<>>
    \/ AfterHeader(j) <= Len(seen) /\ seen[AfterHeader(j)] = "body"

\* C15: a dialect A or B header closes the open message and opens a new one:
\* the messages of earlier headers hold only lines from before this header
\* and are emitted if they gathered a body; the new message has the header's
\* sender and timestamp, the header's inline text (if any) as first body
\* line, then the lines appended after it; the scan has moved on by one line.
C15_HeaderClosesAndOpens ==
    /\ \A k \in 1..Len(AllInfo) :
           LET g == AllInfo[k]
               h == g.hidx
           IN  g.kind \in {"android", "inline"} =>
                 /\ h <= Len(seen)
                 /\ seen[h] = g.kind
                 /\ LET hg == HeaderGroups(h)
                        ymd == IF g.kind = "android" THEN hg.date
                               ELSE Val(g.amb)
                        text == Strip(hg.body)
                    IN  /\ AllSender(k) = Strip(hg.sender)
                        /\ AllSentAt(k) =
                               ymd \o <<Hour24(hg.time[1], hg.time[2]),
                                        hg.time[3]>>
                        /\ AllBody(k) =
                               (IF text # <<>> THEN <<text>> ELSE <<>>)
                                   \o AppendedLines(k)
                 /\ \A b \in 1..Len(g.bidx) : g.bidx[b] > h
                 /\ \A k2 \in 1..(k - 1) :
                        /\ AllInfo[k2].hidx < h
                        /\ \A b \in 1..Len(AllInfo[k2].bidx) :
                               AllInfo[k2].bidx[b] < h
    /\ \A j \in 1..Len(seen) :
           (seen[j] \in HeaderKinds /\ ~(pc = "error" /\ j = Len(seen))) =>
               (GathersBody(j) <=>
                    \E k \in 1..Len(AllInfo) :
                        AllInfo[k].hidx = j /\ AllBody(k) # <<>>)
    /\ \A k \in 1..Len(messages) : messages[k].body_lines # <<>>
    /\ (pc = "scan" /\ seen # <<>>
            /\ seen[Len(seen)] \in {"android", "inline"}) =>
           /\ open_info # None
           /\ Val(open_info).hidx = Len(seen)
           /\ i = Len(seen) + 1
           /\ \A k \in 1..Len(msg_info) : msg_info[k].hidx < Len(seen)

\* a dialect B header with inline text closed a dialect A message that had
\* gathered a text line, and both were emitted
C15_Witness ==
    /\ pc = "done"
    /\ lines = <<L_divider, L_inlineBare, L_text, L_androidText, L_name>>
    /\ Len(messages) = 2
    /\ messages[1].sender = <<"Lee">>
    /\ messages[1].sent_at = <<2026, 1, 4, 0, 30>>
    /\ messages[1].body_lines = <<L_text>>
    /\ messages[2].sender = <<"Kim">>
    /\ messages[2].sent_at = <<2026, 1, 3, 12, 5>>
    /\ messages[2].body_lines = << <<"hi">>, L_name >>

\* the (message, position) pairs at which input line j was appended to a body
Appearances(j) ==
    { <<k, b>> \in (1..Len(AllInfo)) \X (1..Len(lines)) :
          b <= Len(AllInfo[k].bidx) /\ AllInfo[k].bidx[b] = j }

\* line j was taken neither as a date line nor as part of a header
OrdinaryLine(j) == seen[j] \notin BoundaryKinds \cup {"time"}

OpenMessageNow ==
    KMessage(Val(current_sender), Val(current_dt), current_header_lines,
             current_body_lines)

\* one iteration of the loop: the index goes up by one, or by two at a name line
\* with a time-only line after it, or the date error ends the pass
LoopStep ==
    (pc = "scan" /\ i <= Len(lines)) =>
        \/ pc' = "error" /\ i' = i
        \/ pc' = "scan" /\ i' = i + 1
        \/ /\ pc' = "scan" /\ i' = i + 2
           /\ i + 1 <= Len(lines)
           /\ NameLike(i)
           /\ TimeOnly(i + 1)

\* the step after the last line: the one final flush and the return
FinalStep ==
    (pc = "scan" /\ i > Len(lines)) =>
        /\ pc' = "done"
        /\ messages' = IF current_dt # None /\ current_body_lines # <<>>
                       THEN Append(messages, OpenMessageNow)
                       ELSE messages
        /\ result' = Some(messages')
        /\ current_dt' = None

\* C17: split_messages terminates: every loop iteration moves the index on by
\* one or by two (two only at a name line with a time-only line after it), the
\* index never passes the end of the input without the loop ending, every
\* pass ends (by returning, or in the date error), nothing happens after the
\* end, and the step after the last line is the one final flush, which emits
\* a message still open with a body.
C17_Terminates ==
    /\ [](i \in 1..(Len(lines) + 1))
    /\ [](pc = "error" => i <= Len(lines) /\ OutOfRange(i))
    /\ [](pc = "done" => i = Len(lines) + 1 /\ result = Some(messages))
    /\ [][pc = "scan"]_vars
    /\ [][LoopStep]_vars
    /\ [][FinalStep]_vars
    /\ <>(pc \in {"done", "error"})

\* the pass has returned after the last line, and the final flush emitted the
\* message that was still open, with the two lines after its header
C17_Witness ==
    /\ pc = "done"
    /\ lines = <<L_android, L_name, L_time>>
    /\ seen = <<"android", "body", "body">>
    /\ i = 4
    /\ current_dt = None
    /\ result = Some(messages)
    /\ Len(messages) = 1
    /\ messages[1].body_lines = <<L_name, L_time>>

\* the step read a line of the given kinds
StepRead(kinds) ==
    /\ Len(seen') > Len(seen)
    /\ seen'[Len(seen) + 1] \in kinds

\* a dialect B header lies between the last date line before line j and line j
AndroidSinceDate(j) ==
    \E a \in 1..(j - 1) :
        /\ seen[a] = "android"
        /\ \A k \in a..(j - 1) : seen[k] \notin DateKinds

\* the date lines read so far (one that raised the date error is not read)
DateLinesRead ==
    { k \in 1..Len(seen) :
          seen[k] \in DateKinds /\ ~(pc = "error" /\ k = Len(seen)) }

SectionOf(t) == IF Has("SundayStatus", t) THEN "sunday" ELSE "week"

\* C18: once parse_cell_report has gone over a line that holds a section-header
\* marker and a value marker as well, the mode is that of the header and the
\* line's value stands in the report: the total or attendance in the field of
\* the new section, scripture and prayer in their own field.
C18_HeaderLineValueExtracted ==
    (r_pc \in {"lines", "done"} /\ r_k > 1 /\ report # None) =>
        LET t   == Strip(r_msg.body_lines[r_k - 1])
            rep == Val(report)
            sec == SectionOf(t)
        IN  IsHeaderLine(t) =>
              /\ mode = sec
              /\ Has("- total", t) =>
                    IF sec = "sunday"
                    THEN rep.sunday_total = extract_number(t)
                    ELSE rep.week_total = extract_number(t)
              /\ Has("- attend", t) =>
                    IF sec = "sunday"
                    THEN rep.sunday_attend = extract_number(t)
                    ELSE rep.week_attend = extract_number(t)
              /\ Has("bible reading", t) => rep.bible = extract_number(t)
              /\ Has("- prayer", t) => rep.prayer = extract_number(t)

ReportFields ==
    { "cell_no", "leader", "sunday_total", "sunday_attend", "week_total",
      "week_attend", "bible", "prayer", "offering", "absentees_sunday",
      "absentees_week", "devotion" }

ModeMarkers ==
    { <<"- total", "sunday_total", "week_total">>,
      <<"- attend", "sunday_attend", "week_attend">>,
      <<"absentees", "absentees_sunday", "absentees_week">> }

OtherMarkers ==
    { "bible reading", "- prayer", "- offering", "- dawn" }
        \cup { d[1] : d \in DevotionMarkers }

\* the fields a line of mode-sensitive markers may write in the given mode
FieldsOf(t, md) ==
    { f \in ReportFields :
        \E mk \in ModeMarkers :
            /\ Has(mk[1], t)
            /\ \/ md = "sunday" /\ f = mk[2]
               \/ md = "week" /\ f = mk[3] }

\* the loop goes over a line that holds mode-sensitive markers and no other
ModeSensitiveStep ==
    /\ r_pc = "lines"
    /\ r_k <= Len(r_lines)
    /\ r_k' = r_k + 1
    /\ ~IsHeaderLine(Strip(r_msg.body_lines[r_k]))
    /\ \E mk \in ModeMarkers : Has(mk[1], Strip(r_msg.body_lines[r_k]))
    /\ \A o \in OtherMarkers : ~Has(o, Strip(r_msg.body_lines[r_k]))

\* C20: a total, attendance or absentee-list line changes no field but the one
\* of the current section (the other section's field stays as it is), and no
\* field at all when no section header has been met; the mode, once sunday
\* or weekly, is never none again.
C20_ModeSensitiveWrites ==
    /\ [][ModeSensitiveStep =>
            /\ mode' = mode
            /\ \A f \in ReportFields \ FieldsOf(Strip(r_msg.body_lines[r_k]),
                                               mode) :
                   Val(report')[f] = Val(report)[f]
            /\ mode = "none" => report' = report]_vars
    /\ [][mode # "none" => mode' # "none"]_vars
    /\ [](mode \in {"none", "sunday", "week"})
    /\ [](r_pc \in {"lines", "done"} =>
              mode = SectionBefore(r_msg.body_lines, r_k))

\* a total line before any section header changed nothing, and an attendance
\* line under the weekly header changed week_attend only
C20_Witness ==
    /\ r_pc = "done"
    /\ r_msg.body_lines = <<R_cell, R_total, R_week, R_attend>>
    /\ r_ret # None
    /\ Val(r_ret) = [CellReport(3, <<"Kim">>) EXCEPT !.week_attend = 8]
    /\ mode = "week"

====
